---- MODULE Spec2Model ----
(***************************************************************************)
(* teleop_twist_keyboard.py: a ROS 2 node with two threads.                *)
(*   - the reader thread runs get_key_loop: it reads one raw keystroke at  *)
(*     a time and writes x, y, z, th, speed, turn, status, running;        *)
(*   - the main thread runs main: it constructs the node, starts the       *)
(*     reader, spins (the timer callback publish_twist runs inside spin),  *)
(*     and on KeyboardInterrupt runs the finally block.                    *)
(* The two threads share the node's attributes without any lock, so every  *)
(* Python statement of one thread is a step that interleaves with the      *)
(* statements of the other.                                                *)
(*                                                                         *)
(* Numbers.  Every float of the program is an intent component (-1, 0, 1)  *)
(* times an initial scale (0.5 or 1.0) times a product of factors 1.1 and  *)
(* 0.9.  A number is the record [m, up, dn] standing for                   *)
(*        (m / 2) * 1.1^up * 0.9^dn                                        *)
(* with zero always written [0, 0, 0]; the representation is unique, so    *)
(* equality of records is equality of the numbers.  Rounding of IEEE       *)
(* doubles is not modelled.                                                *)
(***************************************************************************)
EXTENDS Integers, Sequences, FiniteSets, TLC

VARIABLES
    stamped,    \* parameter 'stamped'
    frame_id,   \* parameter 'frame_id'
    mainPc,     \* position of the main thread in main()
    rdPc,       \* position of the reader thread in get_key_loop()
    got,        \* local variable key of get_key
    key,        \* local variable key of get_key_loop
    x, y, z, th,    \* self.x, self.y, self.z, self.th
    speed, turn,    \* self.speed, self.turn
    status,     \* self.status
    running,    \* self.running
    term,       \* mode of the controlling terminal: "cooked" or "raw"
    twist_msg,  \* self.twist_msg, the one message object that is reused
    tickPc,     \* position of the timer callback publish_twist
    lastPub,    \* the last message handed to publisher.publish, and by whom
    pressed,    \* history: how often each speed key has been dispatched
    tickDirty,  \* history: the reader wrote shared state during this tick
    out,        \* console: how many status lines and help texts were printed
    lateReads   \* history: keystrokes read while running was False (0, 1, many)

vars == <<stamped, frame_id, mainPc, rdPc, got, key, x, y, z, th, speed, turn,
          status, running, term, twist_msg, tickPc, lastPub, pressed,
          tickDirty, out, lateReads>>

(***************************************************************************)
(* Bounds                                                                  *)
(***************************************************************************)
\* the number of speed-key events of one session, reader alone
MaxSpeedKeys == 3

\* the number of speed-key events of one session, whole program
MaxCoreSpeedKeys == 1
\* speed keys typed in a session of HelpSpec: two full periods of the
\* status counter
MaxHelpSpeedKeys == 30

(***************************************************************************)
(* Numbers                                                                 *)
(***************************************************************************)
Num(m, up, dn) == [m |-> m, up |-> up, dn |-> dn]

Zero == Num(0, 0, 0)

\* an integer -1, 0, 1 of a movement binding, or the float 0.0
FromInt(i) == Num(2 * i, 0, 0)

\* a * b for floats; one of the two mantissas is always a whole number
Mul(a, b) ==
    IF a.m = 0 \/ b.m = 0
    THEN Zero
    ELSE Num((a.m * b.m) \div 2, a.up + b.up, a.dn + b.dn)

\* the sign of a number
Sgn(a) == IF a.m > 0 THEN 1 ELSE IF a.m < 0 THEN -1 ELSE 0

RECURSIVE Pow(_, _)
Pow(a, n) == IF n = 0 THEN FromInt(1) ELSE Mul(a, Pow(a, n - 1))

(***************************************************************************)
(* Keys and binding tables                                                 *)
(***************************************************************************)
CtrlC == "ETX"

NoKey == "none"

MoveKeys ==
    {"i", "o", "j", "l", "u", ",", ".", "m",
     "O", "I", "J", "L", "U", "<", ">", "M", "t", "b"}

move_bindings_SplitAlias(k) ==
    CASE k = "i" -> <<1, 0, 0, 0>>
      [] k = "o" -> <<1, 0, 0, -1>>
      [] k = "j" -> <<0, 0, 0, 1>>
      [] k = "l" -> <<0, 0, 0, -1>>
      [] k = "u" -> <<1, 0, 0, 1>>
      [] k = "," -> <<-1, 0, 0, 0>>
      [] k = "." -> <<-1, 0, 0, 1>>
      [] k = "m" -> <<-1, 0, 0, -1>>
      [] k = "O" -> <<1, -1, 0, 0>>
      [] k = "I" -> <<1, 0, 1, 0>>
      [] k = "J" -> <<0, 1, 0, 0>>
      [] k = "L" -> <<0, -1, 0, 0>>
      [] k = "U" -> <<1, 1, 0, 0>>
      [] k = "<" -> <<-1, 0, 0, 0>>
      [] k = ">" -> <<-1, -1, 0, 0>>
      [] k = "M" -> <<-1, 1, 0, 0>>
      [] k = "t" -> <<0, 0, 1, 0>>
      [] k = "b" -> <<0, 0, -1, 0>>

\* self.move_bindings
move_bindings(k) ==
    CASE k = "i" -> <<1, 0, 0, 0>>
      [] k = "o" -> <<1, 0, 0, -1>>
      [] k = "j" -> <<0, 0, 0, 1>>
      [] k = "l" -> <<0, 0, 0, -1>>
      [] k = "u" -> <<1, 0, 0, 1>>
      [] k = "," -> <<-1, 0, 0, 0>>
      [] k = "." -> <<-1, 0, 0, 1>>
      [] k = "m" -> <<-1, 0, 0, -1>>
      [] k = "O" -> <<1, -1, 0, 0>>
      [] k = "I" -> <<1, 0, 0, 0>>
      [] k = "J" -> <<0, 1, 0, 0>>
      [] k = "L" -> <<0, -1, 0, 0>>
      [] k = "U" -> <<1, 1, 0, 0>>
      [] k = "<" -> <<-1, 0, 0, 0>>
      [] k = ">" -> <<-1, -1, 0, 0>>
      [] k = "M" -> <<-1, 1, 0, 0>>
      [] k = "t" -> <<0, 0, 1, 0>>
      [] k = "b" -> <<0, 0, -1, 0>>

SpeedKeys == {"q", "z", "w", "x", "e", "c"}

F11 == Num(2, 1, 0)     \* 1.1
F09 == Num(2, 0, 1)     \* .9
F1  == Num(2, 0, 0)     \* 1

speed_bindings_QLinearOnly(k) ==
    CASE k = "q" -> <<F11, F1>>
      [] k = "z" -> <<F09, F09>>
      [] k = "w" -> <<F11, F1>>
      [] k = "x" -> <<F09, F1>>
      [] k = "e" -> <<F1, F11>>
      [] k = "c" -> <<F1, F09>>

speed_bindings_WBoth(k) ==
    CASE k = "q" -> <<F11, F11>>
      [] k = "z" -> <<F09, F09>>
      [] k = "w" -> <<F11, F11>>
      [] k = "x" -> <<F09, F1>>
      [] k = "e" -> <<F1, F11>>
      [] k = "c" -> <<F1, F09>>

\* self.speed_bindings
speed_bindings(k) ==
    CASE k = "q" -> <<F11, F11>>
      [] k = "z" -> <<F09, F09>>
      [] k = "w" -> <<F11, F1>>
      [] k = "x" -> <<F09, F1>>
      [] k = "e" -> <<F1, F11>>
      [] k = "c" -> <<F1, F09>>

\* keys that are neither movement nor speed bindings
StopKeys == {" ", "a", CtrlC}

AllKeys == MoveKeys \cup SpeedKeys \cup StopKeys

\* the keys typed in the concurrent specification
CoreKeys == {"i", "u", "b", "q", " ", CtrlC}

\* the keys typed in the fair specification
LiveKeys == {"u", CtrlC}

InitSpeed == Num(1, 0, 0)   \* 0.5
InitTurn  == Num(2, 0, 0)   \* 1.0

(***************************************************************************)
(* Messages                                                                *)
(***************************************************************************)
\* twist_msg_type(): a default-constructed Twist or TwistStamped
NewMsg(st) ==
    [kind |-> IF st THEN "TwistStamped" ELSE "Twist",
     frame_id |-> "",
     lx |-> Zero, ly |-> Zero, lz |-> Zero,
     ax |-> Zero, ay |-> Zero, az |-> Zero]

NoPub == [by |-> "none", msg |-> NewMsg(FALSE)]

ZeroVel(m) ==
    /\ m.lx = Zero /\ m.ly = Zero /\ m.lz = Zero
    /\ m.ax = Zero /\ m.ay = Zero /\ m.az = Zero

\* the parameter values (stamped, frame_id) a session is started with
Configs == {<<FALSE, "">>, <<FALSE, "base_link">>, <<TRUE, "base_link">>}

(***************************************************************************)
(* Initial state: the process has started with some parameter values and   *)
(* main has not yet constructed the node.  The attributes hold the values  *)
(* __init__ gives them.                                                    *)
(***************************************************************************)
Init ==
    /\ \E c \in Configs : stamped = c[1] /\ frame_id = c[2]
    /\ mainPc = "init"
    /\ rdPc = "idle"
    /\ got = NoKey
    /\ key = NoKey
    /\ x = 0 /\ y = 0 /\ z = 0 /\ th = 0
    /\ speed = InitSpeed /\ turn = InitTurn
    /\ status = 0
    /\ running = FALSE
    /\ term = "cooked"
    /\ twist_msg = NewMsg(FALSE)
    /\ tickPc = "idle"
    /\ lastPub = NoPub
    /\ pressed = [k \in SpeedKeys |-> 0]
    /\ tickDirty = FALSE
    /\ out = [vels |-> 0, help |-> 0]
    /\ lateReads = 0

\* the default parameters only
InitDefault ==
    /\ Init
    /\ stamped = FALSE
    /\ frame_id = ""

cfgVars == <<stamped, frame_id>>
logVars == <<out, lateReads>>
intentVars == <<x, y, z, th>>
scaleVars == <<speed, turn>>
tickVars == <<twist_msg, tickPc, lastPub, tickDirty>>

(***************************************************************************)
(* main thread: main() and TeleopTwistKeyboard.__init__                    *)
(***************************************************************************)
ConfigRejected_Never(st, fid) == FALSE

\* if not self.stamped and self.frame_id: raise Exception(...)
ConfigRejected(st, fid) == ~st /\ fid # ""

\* teleop_node = TeleopTwistKeyboard(): the exception of the parameter check
\* leaves main before anything is created; otherwise the publisher, the
\* attributes, the message object, the thread object and the timer exist.
MainConstruct ==
    /\ mainPc = "init"
    /\ IF ConfigRejected(stamped, frame_id)
       THEN /\ mainPc' = "crashed"
            /\ UNCHANGED <<x, y, z, th, speed, turn, status, running,
                           twist_msg>>
       ELSE /\ mainPc' = "constructed"
            /\ x' = 0 /\ y' = 0 /\ z' = 0 /\ th' = 0
            /\ speed' = InitSpeed /\ turn' = InitTurn
            /\ status' = 0
            /\ running' = TRUE
            /\ twist_msg' = NewMsg(stamped)
    /\ UNCHANGED <<cfgVars, logVars, rdPc, got, key, term, tickPc, lastPub, pressed,
                   tickDirty>>

\* teleop_node.key_thread.start(); then main enters rclpy.spin
MainStartThread ==
    /\ mainPc = "constructed"
    /\ mainPc' = "spin"
    /\ rdPc' = "banner"
    /\ UNCHANGED <<cfgVars, logVars, got, key, intentVars, scaleVars, status, running,
                   term, tickVars, pressed>>

\* SIGINT reaches the main thread while it spins: KeyboardInterrupt is
\* raised at whatever statement the main thread executes, a timer callback
\* in progress is abandoned, and control passes to the finally block.
Sigint ==
    /\ mainPc = "spin"
    /\ mainPc' = "finally"
    /\ tickPc' = "idle"
    /\ tickDirty' = FALSE
    /\ UNCHANGED <<cfgVars, logVars, rdPc, got, key, intentVars, scaleVars, status,
                   running, term, twist_msg, lastPub, pressed>>

MainClearRunning_Skip ==
    /\ mainPc = "finally"
    /\ mainPc' = "stop_fill"
    /\ UNCHANGED <<cfgVars, logVars, rdPc, got, key, intentVars, scaleVars,
                   status, running, term, tickVars, pressed>>

\* teleop_node.running = False
MainClearRunning ==
    /\ mainPc = "finally"
    /\ running' = FALSE
    /\ mainPc' = "stop_fill"
    /\ UNCHANGED <<cfgVars, logVars, rdPc, got, key, intentVars, scaleVars, status, term,
                   tickVars, pressed>>

StopVel_KeepZ(m) ==
    [m EXCEPT !.lx = Zero, !.ly = Zero,
              !.ax = Zero, !.ay = Zero, !.az = Zero]

\* stop(): the six assignments of 0.0 (the stamp is not modelled)
StopVel(m) ==
    [m EXCEPT !.lx = Zero, !.ly = Zero, !.lz = Zero,
              !.ax = Zero, !.ay = Zero, !.az = Zero]

StopFill ==
    /\ mainPc = "stop_fill"
    /\ twist_msg' = StopVel(twist_msg)
    /\ mainPc' = "stop_pub"
    /\ UNCHANGED <<cfgVars, logVars, rdPc, got, key, intentVars, scaleVars, status,
                   running, term, tickPc, lastPub, pressed, tickDirty>>

\* stop(): self.publisher.publish(self.twist_msg)
StopPublish ==
    /\ mainPc = "stop_pub"
    /\ lastPub' = [by |-> "stop", msg |-> twist_msg]
    /\ mainPc' = "stop_restore"
    /\ UNCHANGED <<cfgVars, logVars, rdPc, got, key, intentVars, scaleVars, status,
                   running, term, twist_msg, tickPc, pressed, tickDirty>>

\* stop(): self.restore_terminal_settings()
StopRestore ==
    /\ mainPc = "stop_restore"
    /\ term' = "cooked"
    /\ mainPc' = "destroy"
    /\ UNCHANGED <<cfgVars, logVars, rdPc, got, key, intentVars, scaleVars, status,
                   running, tickVars, pressed>>

\* teleop_node.destroy_node(); rclpy.shutdown()
MainDestroy ==
    /\ mainPc = "destroy"
    /\ mainPc' = "join"
    /\ UNCHANGED <<cfgVars, logVars, rdPc, got, key, intentVars, scaleVars, status,
                   running, term, tickVars, pressed>>

\* if key_thread.is_alive(): key_thread.join() -- returns once the reader
\* thread has exited
MainJoin ==
    /\ mainPc = "join"
    /\ rdPc = "exited"
    /\ mainPc' = "done"
    /\ UNCHANGED <<cfgVars, logVars, rdPc, got, key, intentVars, scaleVars, status,
                   running, term, tickVars, pressed>>

(***************************************************************************)
(* reader thread: get_key_loop() and get_key()                             *)
(***************************************************************************)
\* a write of the reader to the shared state lands inside a running tick
Dirty == IF tickPc = "idle" THEN tickDirty ELSE TRUE

\* print(self.HELP_MSG); print(self.vels())
RdBanner ==
    /\ rdPc = "banner"
    /\ out' = [vels |-> out.vels + 1, help |-> out.help + 1]
    /\ rdPc' = "check"
    /\ UNCHANGED <<cfgVars, lateReads, mainPc, got, key, intentVars,
                   scaleVars, status, running, term, tickVars, pressed>>

RdCheck_Ignore ==
    /\ rdPc = "check"
    /\ rdPc' = "setraw"
    /\ UNCHANGED <<cfgVars, logVars, mainPc, got, key, intentVars,
                   scaleVars, status, running, term, tickVars, pressed>>

\* while self.running:
RdCheck ==
    /\ rdPc = "check"
    /\ rdPc' = IF running THEN "setraw" ELSE "exited"
    /\ UNCHANGED <<cfgVars, logVars, mainPc, got, key, intentVars, scaleVars, status,
                   running, term, tickVars, pressed>>

\* get_key: tty.setraw(sys.stdin.fileno())
RdSetRaw ==
    /\ rdPc = "setraw"
    /\ term' = "raw"
    /\ rdPc' = "read"
    /\ UNCHANGED <<cfgVars, logVars, mainPc, got, key, intentVars, scaleVars, status,
                   running, tickVars, pressed>>

SpeedKeysUsed == pressed["q"] + pressed["z"] + pressed["w"]
                 + pressed["x"] + pressed["e"] + pressed["c"]

\* get_key: key = sys.stdin.read(1) returns the character c typed by the
\* user, one of the keys K; at most n speed keys are typed in a session.
RdRead(K, n) ==
    /\ rdPc = "read"
    /\ \E c \in K :
          /\ c \in SpeedKeys => SpeedKeysUsed < n
          /\ got' = c
    /\ rdPc' = "restore"
    /\ lateReads' = IF running THEN lateReads
                    ELSE IF lateReads = 0 THEN 1 ELSE 2
    /\ UNCHANGED <<cfgVars, out, mainPc, key, intentVars, scaleVars, status,
                   running, term, tickVars, pressed>>

\* get_key: termios.tcsetattr(sys.stdin, termios.TCSADRAIN, self.settings)
\* return key -- and get_key_loop assigns the returned character to key
RdRestore ==
    /\ rdPc = "restore"
    /\ term' = "cooked"
    /\ key' = got
    /\ got' = NoKey
    /\ rdPc' = "dispatch"
    /\ UNCHANGED <<cfgVars, logVars, mainPc, intentVars, scaleVars, status,
                   running, tickVars, pressed>>

\* get_key raises (termios.error, OSError): control passes to the except
\* clause of get_key_loop without an assignment to its key; the terminal
\* stays as the failing call left it
RdFail ==
    /\ rdPc \in {"setraw", "read", "restore"}
    /\ rdPc' = "except"
    /\ got' = NoKey
    /\ UNCHANGED <<cfgVars, logVars, mainPc, key, intentVars, scaleVars, status,
                   running, term, tickVars, pressed>>

\* except Exception as e: print(...); self.running = False
RdExcept ==
    /\ rdPc = "except"
    /\ running' = FALSE
    /\ rdPc' = "exited"
    /\ UNCHANGED <<cfgVars, logVars, mainPc, got, key, intentVars, scaleVars, status,
                   term, tickVars, pressed>>

\* if key in self.move_bindings: self.x = self.move_bindings[key][0]
RdMoveX ==
    /\ rdPc = "dispatch"
    /\ key \in MoveKeys
    /\ x' = move_bindings(key)[1]
    /\ rdPc' = "mv_y"
    /\ tickDirty' = Dirty
    /\ UNCHANGED <<cfgVars, logVars, mainPc, got, key, y, z, th, scaleVars, status,
                   running, term, twist_msg, tickPc, lastPub, pressed>>

\* self.y = self.move_bindings[key][1]
RdMoveY ==
    /\ rdPc = "mv_y"
    /\ y' = move_bindings(key)[2]
    /\ rdPc' = "mv_z"
    /\ tickDirty' = Dirty
    /\ UNCHANGED <<cfgVars, logVars, mainPc, got, key, x, z, th, scaleVars, status,
                   running, term, twist_msg, tickPc, lastPub, pressed>>

\* self.z = self.move_bindings[key][2]
RdMoveZ ==
    /\ rdPc = "mv_z"
    /\ z' = move_bindings(key)[3]
    /\ rdPc' = "mv_th"
    /\ tickDirty' = Dirty
    /\ UNCHANGED <<cfgVars, logVars, mainPc, got, key, x, y, th, scaleVars, status,
                   running, term, twist_msg, tickPc, lastPub, pressed>>

RdMoveTh_FromZ ==
    /\ rdPc = "mv_th"
    /\ th' = move_bindings(key)[3]
    /\ rdPc' = "check"
    /\ tickDirty' = Dirty
    /\ UNCHANGED <<cfgVars, logVars, mainPc, got, key, x, y, z, scaleVars, status,
                   running, term, twist_msg, tickPc, lastPub, pressed>>

\* self.th = self.move_bindings[key][3]
RdMoveTh ==
    /\ rdPc = "mv_th"
    /\ th' = move_bindings(key)[4]
    /\ rdPc' = "check"
    /\ tickDirty' = Dirty
    /\ UNCHANGED <<cfgVars, logVars, mainPc, got, key, x, y, z, scaleVars, status,
                   running, term, twist_msg, tickPc, lastPub, pressed>>

RdSpeed_ZeroX ==
    /\ rdPc = "dispatch"
    /\ key \notin MoveKeys
    /\ key \in SpeedKeys
    /\ speed' = Mul(speed, speed_bindings(key)[1])
    /\ x' = 0
    /\ pressed' = [pressed EXCEPT ![key] = @ + 1]
    /\ rdPc' = "sp_turn"
    /\ tickDirty' = Dirty
    /\ UNCHANGED <<cfgVars, logVars, mainPc, got, key, y, z, th, turn, status, running,
                   term, twist_msg, tickPc, lastPub>>

\* elif key in self.speed_bindings:
\*     self.speed = self.speed * self.speed_bindings[key][0]
RdSpeed ==
    /\ rdPc = "dispatch"
    /\ key \notin MoveKeys
    /\ key \in SpeedKeys
    /\ speed' = Mul(speed, speed_bindings(key)[1])
    /\ pressed' = [pressed EXCEPT ![key] = @ + 1]
    /\ rdPc' = "sp_turn"
    /\ tickDirty' = Dirty
    /\ UNCHANGED <<cfgVars, logVars, mainPc, got, key, intentVars, turn, status, running,
                   term, twist_msg, tickPc, lastPub>>

\* self.turn = self.turn * self.speed_bindings[key][1]
RdTurn ==
    /\ rdPc = "sp_turn"
    /\ turn' = Mul(turn, speed_bindings(key)[2])
    /\ rdPc' = "sp_status"
    /\ tickDirty' = Dirty
    /\ UNCHANGED <<cfgVars, logVars, mainPc, got, key, intentVars, speed, status, running,
                   term, twist_msg, tickPc, lastPub, pressed>>

RdStatus_Mod16 ==
    /\ rdPc = "sp_status"
    /\ out' = [vels |-> out.vels + 1,
                help |-> IF status = 14 THEN out.help + 1 ELSE out.help]
    /\ status' = (status + 1) % 16
    /\ rdPc' = "check"
    /\ UNCHANGED <<cfgVars, lateReads, mainPc, got, key, intentVars, scaleVars, running,
                   term, tickVars, pressed>>

\* print(self.vels()); if self.status == 14: print(self.HELP_MSG)
\* self.status = (self.status + 1) % 15
RdStatus ==
    /\ rdPc = "sp_status"
    /\ out' = [vels |-> out.vels + 1,
                help |-> IF status = 14 THEN out.help + 1 ELSE out.help]
    /\ status' = (status + 1) % 15
    /\ rdPc' = "check"
    /\ UNCHANGED <<cfgVars, lateReads, mainPc, got, key, intentVars, scaleVars, running,
                   term, tickVars, pressed>>

\* else: self.x = 0.0
RdZeroX ==
    /\ rdPc = "dispatch"
    /\ key \notin MoveKeys
    /\ key \notin SpeedKeys
    /\ x' = 0
    /\ rdPc' = "z_y"
    /\ tickDirty' = Dirty
    /\ UNCHANGED <<cfgVars, logVars, mainPc, got, key, y, z, th, scaleVars, status,
                   running, term, twist_msg, tickPc, lastPub, pressed>>

\* self.y = 0.0
RdZeroY ==
    /\ rdPc = "z_y"
    /\ y' = 0
    /\ rdPc' = "z_z"
    /\ tickDirty' = Dirty
    /\ UNCHANGED <<cfgVars, logVars, mainPc, got, key, x, z, th, scaleVars, status,
                   running, term, twist_msg, tickPc, lastPub, pressed>>

\* self.z = 0.0
RdZeroZ ==
    /\ rdPc = "z_z"
    /\ z' = 0
    /\ rdPc' = "z_th"
    /\ tickDirty' = Dirty
    /\ UNCHANGED <<cfgVars, logVars, mainPc, got, key, x, y, th, scaleVars, status,
                   running, term, twist_msg, tickPc, lastPub, pressed>>

RdZeroTh_Skip ==
    /\ rdPc = "z_th"
    /\ rdPc' = IF key = CtrlC THEN "quit" ELSE "check"
    /\ tickDirty' = Dirty
    /\ UNCHANGED <<cfgVars, logVars, mainPc, got, key, x, y, z, th, scaleVars, status,
                   running, term, twist_msg, tickPc, lastPub, pressed>>

\* self.th = 0.0; if key == '\x03': (taken in RdQuit)
RdZeroTh ==
    /\ rdPc = "z_th"
    /\ th' = 0
    /\ rdPc' = IF key = CtrlC THEN "quit" ELSE "check"
    /\ tickDirty' = Dirty
    /\ UNCHANGED <<cfgVars, logVars, mainPc, got, key, x, y, z, scaleVars, status,
                   running, term, twist_msg, tickPc, lastPub, pressed>>

\* self.running = False; break -- the thread's target returns
RdQuit ==
    /\ rdPc = "quit"
    /\ running' = FALSE
    /\ rdPc' = "exited"
    /\ UNCHANGED <<cfgVars, logVars, mainPc, got, key, intentVars, scaleVars, status,
                   term, tickVars, pressed>>

(***************************************************************************)
(* timer callback: publish_twist(), run by rclpy.spin in the main thread   *)
(***************************************************************************)
TickStart_NoFrame ==
    /\ mainPc = "spin"
    /\ tickPc = "idle"
    /\ tickPc' = "lx"
    /\ tickDirty' = FALSE
    /\ UNCHANGED <<cfgVars, logVars, mainPc, rdPc, got, key, intentVars,
                   scaleVars, status, running, term, twist_msg, lastPub,
                   pressed>>

\* the timer fires; in stamped mode the header is written first
TickStart ==
    /\ mainPc = "spin"
    /\ tickPc = "idle"
    /\ twist_msg' = IF stamped
                    THEN [twist_msg EXCEPT !.frame_id = frame_id]
                    ELSE twist_msg
    /\ tickPc' = "lx"
    /\ tickDirty' = FALSE
    /\ UNCHANGED <<cfgVars, logVars, mainPc, rdPc, got, key, intentVars, scaleVars,
                   status, running, term, lastPub, pressed>>

Scaled_Unscaled(i, s) == FromInt(i)

\* self.<component> * self.<scale>
Scaled(i, s) == Mul(FromInt(i), s)

\* twist.linear.x = self.x * self.speed
TickLx ==
    /\ mainPc = "spin"
    /\ tickPc = "lx"
    /\ twist_msg' = [twist_msg EXCEPT !.lx = Scaled(x, speed)]
    /\ tickPc' = "ly"
    /\ UNCHANGED <<cfgVars, logVars, mainPc, rdPc, got, key, intentVars, scaleVars,
                   status, running, term, lastPub, pressed, tickDirty>>

\* twist.linear.y = self.y * self.speed
TickLy ==
    /\ mainPc = "spin"
    /\ tickPc = "ly"
    /\ twist_msg' = [twist_msg EXCEPT !.ly = Scaled(y, speed)]
    /\ tickPc' = "lz"
    /\ UNCHANGED <<cfgVars, logVars, mainPc, rdPc, got, key, intentVars, scaleVars,
                   status, running, term, lastPub, pressed, tickDirty>>

\* twist.linear.z = self.z * self.speed
TickLz ==
    /\ mainPc = "spin"
    /\ tickPc = "lz"
    /\ twist_msg' = [twist_msg EXCEPT !.lz = Scaled(z, speed)]
    /\ tickPc' = "ax"
    /\ UNCHANGED <<cfgVars, logVars, mainPc, rdPc, got, key, intentVars, scaleVars,
                   status, running, term, lastPub, pressed, tickDirty>>

\* twist.angular.x = 0.0
TickAx ==
    /\ mainPc = "spin"
    /\ tickPc = "ax"
    /\ twist_msg' = [twist_msg EXCEPT !.ax = Zero]
    /\ tickPc' = "ay"
    /\ UNCHANGED <<cfgVars, logVars, mainPc, rdPc, got, key, intentVars, scaleVars,
                   status, running, term, lastPub, pressed, tickDirty>>

\* twist.angular.y = 0.0
TickAy ==
    /\ mainPc = "spin"
    /\ tickPc = "ay"
    /\ twist_msg' = [twist_msg EXCEPT !.ay = Zero]
    /\ tickPc' = "az"
    /\ UNCHANGED <<cfgVars, logVars, mainPc, rdPc, got, key, intentVars, scaleVars,
                   status, running, term, lastPub, pressed, tickDirty>>

\* twist.angular.z = self.th * self.turn
TickAz ==
    /\ mainPc = "spin"
    /\ tickPc = "az"
    /\ twist_msg' = [twist_msg EXCEPT !.az = Scaled(th, turn)]
    /\ tickPc' = "pub"
    /\ UNCHANGED <<cfgVars, logVars, mainPc, rdPc, got, key, intentVars, scaleVars,
                   status, running, term, lastPub, pressed, tickDirty>>

\* self.publisher.publish(self.twist_msg); the callback returns
TickPublish ==
    /\ mainPc = "spin"
    /\ tickPc = "pub"
    /\ lastPub' = [by |-> "tick", msg |-> twist_msg]
    /\ tickPc' = "idle"
    /\ tickDirty' = FALSE
    /\ UNCHANGED <<cfgVars, logVars, mainPc, rdPc, got, key, intentVars, scaleVars,
                   status, running, term, twist_msg, pressed>>

(***************************************************************************)
(* Specifications                                                          *)
(***************************************************************************)
MainStep ==
    \/ MainConstruct
    \/ MainStartThread
    \/ MainClearRunning
    \/ StopFill
    \/ StopPublish
    \/ StopRestore
    \/ MainDestroy
    \/ MainJoin

\* the steps the reader thread takes by itself, once a character is there
RdMoveStep == RdMoveX \/ RdMoveY \/ RdMoveZ \/ RdMoveTh

RdSpeedStep == RdSpeed \/ RdTurn \/ RdStatus

RdZeroStep == RdZeroX \/ RdZeroY \/ RdZeroZ \/ RdZeroTh

RdLoopStep ==
    RdBanner \/ RdCheck \/ RdSetRaw \/ RdRestore \/ RdExcept \/ RdQuit

TickStep ==
    \/ TickStart
    \/ TickLx
    \/ TickLy
    \/ TickLz
    \/ TickAx
    \/ TickAy
    \/ TickAz
    \/ TickPublish

\* the whole program, with the keys of CoreKeys typed in any order
Next ==
    \/ MainConstruct
    \/ MainStartThread
    \/ Sigint
    \/ MainClearRunning
    \/ StopFill
    \/ StopPublish
    \/ StopRestore
    \/ MainDestroy
    \/ MainJoin
    \/ RdBanner
    \/ RdCheck
    \/ RdSetRaw
    \/ RdRead(CoreKeys, MaxCoreSpeedKeys)
    \/ RdRestore
    \/ RdFail
    \/ RdExcept
    \/ RdMoveX
    \/ RdMoveY
    \/ RdMoveZ
    \/ RdMoveTh
    \/ RdSpeed
    \/ RdTurn
    \/ RdStatus
    \/ RdZeroX
    \/ RdZeroY
    \/ RdZeroZ
    \/ RdZeroTh
    \/ RdQuit
    \/ TickStart
    \/ TickLx
    \/ TickLy
    \/ TickLz
    \/ TickAx
    \/ TickAy
    \/ TickAz
    \/ TickPublish

Spec == Init /\ [][Next]_vars

\* the reader thread alone (no timer tick, no interrupt, no I/O failure),
\* with every key typed in any order
NextKeys ==
    \/ MainConstruct
    \/ MainStartThread
    \/ RdBanner
    \/ RdCheck
    \/ RdSetRaw
    \/ RdRead(AllKeys, MaxSpeedKeys)
    \/ RdRestore
    \/ RdMoveX
    \/ RdMoveY
    \/ RdMoveZ
    \/ RdMoveTh
    \/ RdSpeed
    \/ RdTurn
    \/ RdStatus
    \/ RdZeroX
    \/ RdZeroY
    \/ RdZeroZ
    \/ RdZeroTh
    \/ RdQuit

KeySpec == InitDefault /\ [][NextKeys]_vars

\* keys of a long session: two speed keys, a movement key and a stop key
HelpKeys == {"w", "x", "i", " "}

\* the reader thread alone, over a session long enough for the status
\* counter to wrap twice
NextHelp ==
    \/ MainConstruct
    \/ MainStartThread
    \/ RdBanner
    \/ RdCheck
    \/ RdSetRaw
    \/ RdRead(HelpKeys, MaxHelpSpeedKeys)
    \/ RdRestore
    \/ RdMoveX
    \/ RdMoveY
    \/ RdMoveZ
    \/ RdMoveTh
    \/ RdSpeed
    \/ RdTurn
    \/ RdStatus
    \/ RdZeroX
    \/ RdZeroY
    \/ RdZeroZ
    \/ RdZeroTh

HelpSpec == InitDefault /\ [][NextHelp]_vars

\* the whole program with the keys of LiveKeys.  Each thread that can take
\* a step of its own eventually takes it: the interpreter schedules both
\* threads and the timer keeps firing while main spins.  Nothing obliges
\* the user to type, the terminal to fail or a signal to arrive.
NextLive ==
    \/ MainConstruct
    \/ MainStartThread
    \/ Sigint
    \/ MainClearRunning
    \/ StopFill
    \/ StopPublish
    \/ StopRestore
    \/ MainDestroy
    \/ MainJoin
    \/ RdBanner
    \/ RdCheck
    \/ RdSetRaw
    \/ RdRead(LiveKeys, 0)
    \/ RdRestore
    \/ RdFail
    \/ RdExcept
    \/ RdMoveX
    \/ RdMoveY
    \/ RdMoveZ
    \/ RdMoveTh
    \/ RdZeroX
    \/ RdZeroY
    \/ RdZeroZ
    \/ RdZeroTh
    \/ RdQuit
    \/ TickStart
    \/ TickLx
    \/ TickLy
    \/ TickLz
    \/ TickAx
    \/ TickAy
    \/ TickAz
    \/ TickPublish

FairSpec ==
    /\ InitDefault
    /\ [][NextLive]_vars
    /\ WF_vars(MainStep \/ TickStep)
    /\ WF_vars(RdLoopStep \/ RdMoveStep \/ RdZeroStep)

\* the same, for a user who keeps typing: a read the reader is blocked in
\* eventually returns
FairReadSpec ==
    /\ FairSpec
    /\ WF_vars(RdRead(LiveKeys, 0))

(***************************************************************************)
(* State predicates used by the properties                                 *)
(***************************************************************************)
Intent == <<x, y, z, th>>

IntentZero == Intent = <<0, 0, 0, 0>>

\* the reader has finished dispatching the key it read last and has not
\* read another one
Dispatched ==
    /\ key # NoKey
    /\ rdPc \in {"check", "setraw", "read", "quit", "except", "exited"}

\* the direction a published message was built from
PubDir(m) == <<Sgn(m.lx), Sgn(m.ly), Sgn(m.lz), Sgn(m.az)>>

BoundTuples == {move_bindings(k) : k \in MoveKeys}

\* main is in or past its finally block
ShuttingDown ==
    mainPc \in {"finally", "stop_fill", "stop_pub", "stop_restore",
                "destroy", "join", "done"}

\* stop() has published
StopPublished == mainPc \in {"stop_restore", "destroy", "join", "done"}

(***************************************************************************)
(* Properties                                                              *)
(***************************************************************************)
\* C1: the direction of every command published by a timer tick is the
\* zero tuple or the complete tuple of one movement binding, never a mix of
\* the tuples of two keystrokes.
C1_NoTornIntent ==
    lastPub.by = "tick" =>
        PubDir(lastPub.msg) \in BoundTuples \cup {<<0, 0, 0, 0>>}

\* C2: once the reader has read Ctrl-C, main's shutdown sequence eventually
\* runs to its end, whatever else happens or does not happen.
C2_CtrlCEndsSession ==
    (key = CtrlC /\ rdPc = "dispatch") ~> (mainPc = "done")

\* C3: once get_key has raised while the intent is nonzero, an all-zero
\* command is eventually published and from then on the last published
\* command stays all-zero.
C3_FailureStopsRobot ==
    (rdPc = "except" /\ ~IntentZero)
        ~> [](lastPub.by # "none" /\ ZeroVel(lastPub.msg))

\* C4: stop() publishes exactly one command, with six zero velocity fields
\* whatever the intent and the scales are, and it stays the last published
\* command: nothing is published by stop() before the shutdown sequence
\* reaches it, and no timer tick runs once the sequence has started.
C4_FinalStop ==
    /\ StopPublished => lastPub.by = "stop" /\ ZeroVel(lastPub.msg)
    /\ ~StopPublished => lastPub.by # "stop"
    /\ ShuttingDown => tickPc = "idle"

C4_Witness ==
    /\ mainPc = "done"
    /\ Intent = <<0, 0, -1, 0>>
    /\ speed = Mul(InitSpeed, F11)
    /\ lastPub.by = "stop"

\* C5: after the reader has dispatched a key that is neither a movement nor
\* a speed binding the intent is (0,0,0,0), and a timer tick that ran wholly
\* after that dispatch is about to publish an all-zero velocity.
C5_DeadMan ==
    (Dispatched /\ key \notin MoveKeys /\ key \notin SpeedKeys) =>
        /\ IntentZero
        /\ (tickPc = "pub" /\ ~tickDirty) => ZeroVel(twist_msg)

C5_Witness ==
    /\ key = " "
    /\ rdPc = "read"
    /\ tickPc = "pub"
    /\ ~tickDirty
    /\ lastPub.by = "tick"
    /\ PubDir(lastPub.msg) = <<1, 0, 0, 1>>
    /\ ZeroVel(twist_msg)

\* C6 as stated: after a movement key is dispatched the intent is its tuple
\* in move_bindings; after any other printable key it is (0,0,0,0).
C6_Original ==
    (Dispatched /\ key # CtrlC) =>
        Intent = IF key \in MoveKeys THEN move_bindings(key)
                 ELSE <<0, 0, 0, 0>>

\* C6 as amended: after a movement key is dispatched the intent is its
\* tuple in move_bindings; after any other printable key that is not a
\* speed binding it is (0,0,0,0).
C6_MoveOrStop ==
    (Dispatched /\ key # CtrlC /\ key \notin SpeedKeys) =>
        Intent = IF key \in MoveKeys THEN move_bindings(key)
                 ELSE <<0, 0, 0, 0>>

C6_Witness ==
    /\ Dispatched
    /\ key = "."
    /\ Intent = <<-1, 0, 0, 1>>

\* the steps of one timer tick, read off the position of the callback
TickComputes(from, to) == tickPc = from /\ tickPc' = to

\* C7: every field of the command a timer tick publishes is what the claim
\* says, for the intent and the scales the tick read: when the tick computes
\* linear x, y, z it stores intent x, y, z times the linear scale (z
\* included), when it computes angular z it stores the angular intent times
\* the angular scale, a stored field stays as it is until the tick
\* publishes, angular x and y are zero, and the message handed to the
\* publisher is that message.  A tick during which the reader wrote nothing
\* so publishes exactly the current intent times the current scales.
C7_PublishedCommand ==
    /\ [](tickPc = "pub" =>
            /\ twist_msg.ax = Zero
            /\ twist_msg.ay = Zero
            /\ ~tickDirty =>
                  /\ twist_msg.lx = Mul(FromInt(x), speed)
                  /\ twist_msg.ly = Mul(FromInt(y), speed)
                  /\ twist_msg.lz = Mul(FromInt(z), speed)
                  /\ twist_msg.az = Mul(FromInt(th), turn))
    /\ [][/\ TickComputes("lx", "ly") =>
                twist_msg'.lx = Mul(FromInt(x), speed)
          /\ TickComputes("ly", "lz") =>
                twist_msg'.ly = Mul(FromInt(y), speed)
          /\ TickComputes("lz", "ax") =>
                twist_msg'.lz = Mul(FromInt(z), speed)
          /\ TickComputes("az", "pub") =>
                twist_msg'.az = Mul(FromInt(th), turn)
          /\ (tickPc \in {"ly", "lz", "ax", "ay", "az"} /\ tickPc' # "idle") =>
                twist_msg'.lx = twist_msg.lx
          /\ (tickPc \in {"lz", "ax", "ay", "az"} /\ tickPc' # "idle") =>
                twist_msg'.ly = twist_msg.ly
          /\ (tickPc \in {"ax", "ay", "az"} /\ tickPc' # "idle") =>
                twist_msg'.lz = twist_msg.lz
          /\ (tickPc = "pub" /\ mainPc' = "spin") =>
                \/ twist_msg' = twist_msg /\ lastPub' = lastPub
                \/ lastPub' = [by |-> "tick", msg |-> twist_msg]
         ]_vars

\* scales 0.5 and 1.0, intent (1,0,0,0): linear (0.5,0,0), angular (0,0,0)
C7_Witness ==
    /\ tickPc = "pub"
    /\ ~tickDirty
    /\ speed = InitSpeed /\ turn = InitTurn
    /\ Intent = <<1, 0, 0, 0>>
    /\ twist_msg.lx = Num(1, 0, 0)
    /\ twist_msg.ly = Zero /\ twist_msg.lz = Zero
    /\ twist_msg.ax = Zero /\ twist_msg.ay = Zero /\ twist_msg.az = Zero

\* the scales the speed keys dispatched so far ask for: q and w multiply
\* the linear scale by 1.1, z and x by 0.9; q and e multiply the angular
\* scale by 1.1, z and c by 0.9
ExpectedSpeed ==
    Mul(InitSpeed, Mul(Pow(F11, pressed["q"] + pressed["w"]),
                       Pow(F09, pressed["z"] + pressed["x"])))

ExpectedTurn ==
    Mul(InitTurn, Mul(Pow(F11, pressed["q"] + pressed["e"]),
                      Pow(F09, pressed["z"] + pressed["c"])))

\* C8: whenever the reader is not in the middle of a speed key, the linear
\* and the angular scale are the initial values 0.5 and 1.0 times the
\* factors of the speed keys dispatched so far, with no bound applied; the
\* other keys change neither scale.
C8_ScalesAreProducts ==
    rdPc # "sp_turn" => speed = ExpectedSpeed /\ turn = ExpectedTurn

C8_Witness ==
    /\ rdPc = "check"
    /\ key = " "
    /\ pressed["z"] = 2 /\ pressed["e"] = 1
    /\ speed = Num(1, 0, 2)
    /\ turn = Num(2, 1, 2)

\* exactly three speed keys have been dispatched, all of them q
QThreeTimes ==
    /\ pressed = [k \in SpeedKeys |-> IF k = "q" THEN 3 ELSE 0]
    /\ rdPc \notin {"sp_turn", "sp_status"}

\* C9 as stated: after q three times the linear scale is 0.5 * 1.1^3 and
\* the angular scale is still 1.0.
C9_Original ==
    QThreeTimes => speed = Num(1, 3, 0) /\ turn = InitTurn

\* C9 as amended: after q three times the linear scale is 0.5 * 1.1^3 and
\* the angular scale is 1.0 * 1.1^3.
C9_QScalesBoth ==
    QThreeTimes => speed = Num(1, 3, 0) /\ turn = Num(2, 3, 0)

C9_Witness ==
    /\ QThreeTimes
    /\ rdPc = "read"
    /\ speed = Num(1, 3, 0)

\* C10: with a non-empty frame_id and stamped false, construction fails:
\* main never gets past it, the reader thread never starts, no key is read,
\* the terminal is never raw, no tick runs and nothing is published.
C10_BadConfigRejected ==
    (~stamped /\ frame_id # "") =>
        /\ mainPc \in {"init", "crashed"}
        /\ rdPc = "idle"
        /\ key = NoKey
        /\ term = "cooked"
        /\ tickPc = "idle"
        /\ lastPub = NoPub
        /\ ~running

C10_Witness ==
    /\ mainPc = "crashed"
    /\ ~stamped
    /\ frame_id = "base_link"

\* C11: in stamped mode every message a timer tick publishes is a
\* TwistStamped whose header.frame_id is the configured frame_id; otherwise
\* it is a bare Twist, which has no header.
C11_TickFrameId ==
    lastPub.by = "tick" =>
        IF stamped
        THEN /\ lastPub.msg.kind = "TwistStamped"
             /\ lastPub.msg.frame_id = frame_id
        ELSE /\ lastPub.msg.kind = "Twist"
             /\ lastPub.msg.frame_id = ""

C11_Witness ==
    /\ stamped
    /\ lastPub.by = "tick"
    /\ lastPub.msg.frame_id = "base_link"
    /\ PubDir(lastPub.msg) = <<1, 0, 0, 1>>

\* main moves from position a to position b
MainGoes(a, b) == mainPc = a /\ mainPc' = b

\* C12: the shutdown sequence runs in this order and skips nothing: the
\* running flag is cleared, then stop() publishes the final command, then
\* stop() restores the terminal, then main joins the reader thread.
C12_ShutdownOrder ==
    /\ [](mainPc \in {"stop_fill", "stop_pub", "stop_restore", "destroy",
                      "join", "done"} => ~running)
    /\ [](mainPc \in {"destroy", "join", "done"} => lastPub.by = "stop")
    /\ [](mainPc = "done" => rdPc = "exited")
    /\ [][/\ (lastPub'.by = "stop" /\ lastPub.by # "stop") =>
                ~running /\ MainGoes("stop_pub", "stop_restore")
          /\ (mainPc' = "destroy" /\ mainPc # "destroy") =>
                /\ MainGoes("stop_restore", "destroy")
                /\ lastPub.by = "stop"
                /\ term' = "cooked"
          /\ (mainPc' = "join" /\ mainPc # "join") =>
                MainGoes("destroy", "join")
          /\ (mainPc' = "done" /\ mainPc # "done") =>
                MainGoes("join", "done") /\ rdPc = "exited"
         ]_vars

C12_Witness ==
    /\ mainPc = "done"
    /\ key = "u"
    /\ lateReads = 1
    /\ lastPub.by = "stop"

\* the magnitude of a number
Abs(a) == [a EXCEPT !.m = IF a.m < 0 THEN -a.m ELSE a.m]

\* C13: in a session whose only speed key is q, which multiplies both
\* scales by 1.1, no timer tick publishes a command whose linear part was
\* computed with the linear scale after some q and whose angular part was
\* computed with the angular scale before that q.
C13_NoTornScale ==
    (lastPub.by = "tick" /\ lastPub.msg.lx # Zero /\ lastPub.msg.az # Zero)
        => ~ \E n \in 0..MaxCoreSpeedKeys :
               /\ Abs(lastPub.msg.lx) = Mul(InitSpeed, Pow(F11, n + 1))
               /\ Abs(lastPub.msg.az) = Mul(InitTurn, Pow(F11, n))

\* the node is constructed and its running flag is False
FlagCleared == mainPc \notin {"init", "crashed"} /\ ~running

\* C14: the reader tests the running flag once per iteration, before it
\* commits to a read.  The flag, once False, stays False; the reader leaves
\* the test towards a read only when the flag is True; so at most one
\* keystroke is read after the flag is cleared; and a reader that is not
\* blocked in a read it had committed to exits.
C14_PollOncePerIteration ==
    /\ [](lateReads <= 1)
    /\ [][/\ FlagCleared => ~running'
          /\ (rdPc = "check" /\ rdPc' # "check") =>
                rdPc' = IF running THEN "setraw" ELSE "exited"
         ]_vars
    /\ (FlagCleared /\ rdPc \notin {"setraw", "read"}) ~> (rdPc = "exited")

\* main cleared the flag while the reader was committed to a read; the
\* reader has dispatched that one keystroke and has exited
C14_Witness ==
    /\ rdPc = "exited"
    /\ lateReads = 1
    /\ key = "u"
    /\ Intent = <<1, 0, 0, 1>>
    /\ mainPc = "join"

\* C15: once main is in its finally block and the read the reader is
\* blocked in eventually returns, main reaches the end of main.  Every step
\* of the sequence before the join can be taken at once, the join can be
\* taken at once when the reader thread has exited, and the reader reads at
\* most one keystroke in the meantime.
C15_ShutdownTerminates ==
    /\ ShuttingDown ~> (mainPc = "done")
    /\ []((ShuttingDown /\ mainPc \notin {"join", "done"}) =>
            ENABLED MainStep)
    /\ []((mainPc = "join" /\ rdPc = "exited") => ENABLED MainJoin)
    /\ [](ShuttingDown => lateReads <= 1)

C15_Witness ==
    /\ mainPc = "done"
    /\ lateReads = 1
    /\ key = "u"

\* C16: in every terminated state (main has left its finally block, the
\* reader thread is joined) the terminal is in the settings saved at
\* construction, whichever way the session ended and however the reader's
\* setraw and restore interleaved with the restore of stop().
C16_TerminalRestored == mainPc = "done" => term = "cooked"

\* speed-key events whose handling (lines 159-166) is complete
SpeedEventsDone ==
    IF rdPc \in {"sp_turn", "sp_status"} THEN SpeedKeysUsed - 1
    ELSE SpeedKeysUsed

\* C17: the status counter is always in 0..14 and equals the number of
\* speed-key events modulo 15; only the handling of a speed key advances it
\* or prints, and it prints the status line every time; the help text is
\* printed again exactly by the 15th, 30th, ... speed-key event (the banner
\* at start-up is the one status line and help text before any key).
C17_StatusCounter ==
    /\ [](status \in 0..14)
    /\ [](status = SpeedEventsDone % 15)
    /\ [](rdPc \notin {"idle", "banner"} =>
             /\ out.vels = 1 + SpeedEventsDone
             /\ out.help = 1 + (SpeedEventsDone \div 15))
    /\ [][/\ (status' # status \/ (out' # out /\ rdPc # "banner")) =>
                /\ rdPc = "sp_status"
                /\ key \in SpeedKeys
                /\ out'.vels = out.vels + 1
          /\ (out'.help # out.help /\ rdPc # "banner") =>
                /\ SpeedKeysUsed % 15 = 0
                /\ SpeedKeysUsed > 0
          /\ (rdPc = "sp_status" /\ rdPc' # rdPc) =>
                out'.help = IF SpeedKeysUsed % 15 = 0 THEN out.help + 1
                            ELSE out.help
         ]_vars

\* the 30th speed-key event has printed the help text for the second time
\* after the banner, and the counter is back at 0; a movement key typed
\* since then has changed neither
C17_Witness ==
    /\ SpeedKeysUsed = 30
    /\ status = 0
    /\ out.help = 3
    /\ out.vels = 31
    /\ key = "i"
    /\ Dispatched

\* C18: the table self.move_bindings that __init__ has built is the same
\* for the whole session, so it is counted once, in the state after
\* construction.  It has 18 distinct keys; it is a table, so each key
\* has exactly one tuple, the one a dispatched movement key leaves in the
\* intent; the keys map to 16 distinct tuples ("I" has the tuple of "i" and
\* "<" the tuple of ",", and no other two keys share one).
C18_BindingTable ==
    /\ mainPc = "constructed" =>
          /\ Cardinality(MoveKeys) = 18
          /\ Cardinality(BoundTuples) = 16
          /\ \A k1 \in MoveKeys : \A k2 \in MoveKeys :
                (k1 # k2 /\ move_bindings(k1) = move_bindings(k2)) =>
                    {k1, k2} \in {{"i", "I"}, {",", "<"}}
    /\ (Dispatched /\ key \in MoveKeys) =>
          /\ Intent = move_bindings(key)
          /\ Intent \in BoundTuples

\* C18 as stated: 11 distinct tuples
C18_Original ==
    /\ mainPc = "constructed" =>
          /\ Cardinality(MoveKeys) = 18
          /\ Cardinality(BoundTuples) = 11
    /\ (Dispatched /\ key \in MoveKeys) => Intent \in BoundTuples

\* an aliasing key has been dispatched: "I" has left the tuple of "i"
C18_Witness ==
    /\ Dispatched
    /\ key = "I"
    /\ Intent = move_bindings("i")
    /\ Intent = <<1, 0, 0, 0>>

\* the reader is handling a speed key (lines 159-166)
InSpeedBranch ==
    \/ rdPc = "dispatch" /\ key \in SpeedKeys
    \/ rdPc \in {"sp_turn", "sp_status"}

\* C19: no step taken while the reader handles a speed key changes the
\* intent, so the tuple after the dispatch is the tuple before it; and a
\* tick that runs after the speed key was dispatched, with no write of the
\* reader during it, publishes that same direction at the new scales (the
\* products of the factors of the speed keys dispatched so far).
C19_SpeedKeyKeepsIntent ==
    /\ [][InSpeedBranch => Intent' = Intent]_vars
    /\ []((Dispatched /\ key \in SpeedKeys /\ tickPc = "pub" /\ ~tickDirty) =>
            /\ PubDir(twist_msg) = Intent
            /\ twist_msg.lx = Mul(FromInt(x), ExpectedSpeed)
            /\ twist_msg.ly = Mul(FromInt(y), ExpectedSpeed)
            /\ twist_msg.lz = Mul(FromInt(z), ExpectedSpeed)
            /\ twist_msg.az = Mul(FromInt(th), ExpectedTurn))
    /\ [][(Dispatched /\ key \in SpeedKeys /\ tickPc = "pub" /\ ~tickDirty
           /\ tickPc' = "idle" /\ mainPc' = "spin") =>
             /\ lastPub'.by = "tick"
             /\ PubDir(lastPub'.msg) = Intent]_vars

\* moving forward and turning left ('u'), then 'q': the intent is still
\* (1,0,0,1) and a tick has published linear 0.55, angular 1.1
C19_Witness ==
    /\ Dispatched
    /\ key = "q"
    /\ Intent = <<1, 0, 0, 1>>
    /\ lastPub.by = "tick"
    /\ lastPub.msg.lx = Num(1, 1, 0)
    /\ lastPub.msg.az = Num(2, 1, 0)

\* C20: in stamped mode every message handed to the publisher, by a timer
\* tick or by stop(), has header.frame_id equal to the frame_id parameter.
C20_FrameIdAlways ==
    (stamped /\ lastPub.by # "none") => lastPub.msg.frame_id = frame_id

====
